---- MODULE Spec2Model ----
(***************************************************************************)
(* Model of pyrosa/_core.py: the autolink plugin that rewrites ticket      *)
(* references (GH-123) in markdown into links.                             *)
(*                                                                         *)
(* A Python str is modelled as a sequence of one-character strings, so     *)
(* that the regular expressions of the source can be modelled by what they *)
(* do on the characters.                                                   *)
(***************************************************************************)
EXTENDS Integers, Sequences, FiniteSets, TLC

\* ------------------------------------------------------------------ text

UpperSeq == <<"A", "B", "C", "D", "E", "F", "G", "H", "I", "J", "K", "L", "M", "N", "O", "P", "Q", "R", "S", "T", "U", "V", "W", "X", "Y", "Z">>
LowerSeq == <<"a", "b", "c", "d", "e", "f", "g", "h", "i", "j", "k", "l", "m", "n", "o", "p", "q", "r", "s", "t", "u", "v", "w", "x", "y", "z">>
Digits == {"0", "1", "2", "3", "4", "5", "6", "7", "8", "9"}

Range(s) == { s[i] : i \in 1..Len(s) }
MinOf(S) == CHOOSE x \in S : \A y \in S : x <= y

\* s[a..b], empty when a > b
Slice(s, a, b) == SubSeq(s, a, b)

RECURSIVE Join(_)
\* "".join(parts)
Join(parts) == IF parts = <<>> THEN <<>> ELSE Head(parts) \o Join(Tail(parts))

\* `needle in hay` of two str
Contains(hay, needle) ==
    \E i \in 1..(Len(hay) - Len(needle) + 1) :
        Slice(hay, i, i + Len(needle) - 1) = needle

\* \w of re (ASCII part)
WordChars == Range(UpperSeq) \cup Range(LowerSeq) \cup Digits \cup {"_"}
IsWordChar(c) == c \in WordChars
\* \s of re
IsSpaceChar(c) == c \in {" ", "\t", "\n", "\r", "\f"}
\* . of re without DOTALL
IsDotChar(c) == c # "\n"
\* the class [-\w] that _get_find_pattern gives every variable
IsVariableChar(c) == c = "-" \/ IsWordChar(c)
\* a look-behind that lets a reference start after "[" (variant)
IsLookBehindCharNoBracket(c) == c \in {"#", "/"}
\* the class [#\[/] of the look-behind of _get_find_pattern
IsLookBehindChar(c) == c \in {"#", "[", "/"}

\* case folding of re.IGNORECASE (ASCII part)
LowerOf == [ c \in Range(UpperSeq) |-> LowerSeq[CHOOSE i \in 1..26 : UpperSeq[i] = c] ]
Lower(c) == IF c \in DOMAIN LowerOf THEN LowerOf[c] ELSE c

\* str.isidentifier (ASCII part): what re demands of a group name
IsIdentifier(name) ==
    /\ name # <<>>
    /\ name[1] \notin Digits
    /\ \A i \in 1..Len(name) : IsWordChar(name[i])

\* FULL_REF_TAG = "__ARGREF_ORIGINAL_TEXT__"
FULL_REF_TAG == <<"_", "_", "A", "R", "G", "R", "E", "F", "_", "O", "R", "I", "G", "I", "N", "A", "L", "_", "T", "E", "X", "T", "_", "_">>

\* ------------------------------------------- VARIABLE_PATTERN  (<\S+?>)

\* Index of the ">" that ends the match of VARIABLE_PATTERN starting at i,
\* 0 when there is none: "<", then the shortest non-empty run of \S that
\* is followed by ">".
VariableMatchEnd(s, i) ==
    IF i > Len(s) \/ s[i] # "<" THEN 0
    ELSE LET ends == { j \in (i + 2)..Len(s) :
                         /\ s[j] = ">"
                         /\ \A k \in (i + 1)..(j - 1) : ~IsSpaceChar(s[k]) }
         IN  IF ends = {} THEN 0 ELSE MinOf(ends)

RECURSIVE VariableTokens(_, _)
\* s from index i on, cut at the non-overlapping matches of VARIABLE_PATTERN
\* (leftmost first): a sequence of [var |-> TRUE, s |-> "<name>"] and
\* [var |-> FALSE, s |-> <<c>>] for every other character.
VariableTokens(s, i) ==
    IF i > Len(s) THEN <<>>
    ELSE LET e == VariableMatchEnd(s, i) IN
         IF e = 0
         THEN <<[var |-> FALSE, s |-> <<s[i]>>]>> \o VariableTokens(s, i + 1)
         ELSE <<[var |-> TRUE, s |-> Slice(s, i, e)]>> \o VariableTokens(s, e + 1)

\* re.findall(VARIABLE_PATTERN, s)
FindAllVariables(s) ==
    LET toks == VariableTokens(s, 1)
    IN  [ i \in 1..Cardinality({ k \in 1..Len(toks) : toks[k].var }) |->
            toks[CHOOSE k \in 1..Len(toks) :
                    /\ toks[k].var
                    /\ Cardinality({ m \in 1..k : toks[m].var }) = i].s ]

\* the name inside a "<name>" token
TokenName(tok) == Slice(tok, 2, Len(tok) - 1)

\* ------------------------------------------- AutoLinkOption.run_validation

\* the default placeholder "<num>"
NUM == <<"<", "n", "u", "m", ">">>

\* An autolink of the configuration is a dict: a record that holds
\* reference_prefix, target_url, both or neither.  A configuration value is
\* [list |-> whether it is a list, items |-> its entries].

ERR_LIST == "Expected a list of autolinks."
ERR_PREFIX == "Expected a 'reference_prefix' in autolinks."
ERR_URL == "Expected a 'target_url' in autolinks."
ERR_VARIABLES == "All variables must be used in 'target_url'"

\* any(...) in the place of all(...) (variant)
AllVariablesUsedAny(variables, target_url) ==
    \E k \in 1..Len(variables) : Contains(target_url, variables[k])
\* all(v in target_url for v in variables)
AllVariablesUsed(variables, target_url) ==
    \A k \in 1..Len(variables) : Contains(target_url, variables[k])

\* a loop that appends no default placeholder (variant)
DefaultedNoAppend(autolink) == autolink
\* the body of the loop for one autolink whose keys are present: the
\* autolink as the loop leaves it (the dict is changed in place)
Defaulted(autolink) ==
    IF Len(FindAllVariables(autolink.reference_prefix)) = 0
    THEN [autolink EXCEPT !.reference_prefix = @ \o NUM]
    ELSE autolink

RECURSIVE ValidateFrom(_, _)
\* the for loop of run_validation from entry i on: [error |-> the message of
\* the ValidationError raised, "" when none is, values |-> the list]
ValidateFrom(items, i) ==
    IF i > Len(items) THEN [error |-> "", values |-> items]
    ELSE LET autolink == items[i] IN
         IF "reference_prefix" \notin DOMAIN autolink
         THEN [error |-> ERR_PREFIX, values |-> items]
         ELSE IF "target_url" \notin DOMAIN autolink
         THEN [error |-> ERR_URL, values |-> items]
         ELSE LET found == FindAllVariables(autolink.reference_prefix)
                  variables == IF Len(found) = 0 THEN <<NUM>> ELSE found
                  items2 == [items EXCEPT ![i] = Defaulted(autolink)]
              IN  IF ~AllVariablesUsed(variables, items2[i].target_url)
                  THEN [error |-> ERR_VARIABLES, values |-> items2]
                  ELSE ValidateFrom(items2, i + 1)

\* run_validation(values)
run_validation(values) ==
    IF ~values.list
    THEN [error |-> ERR_LIST, values |-> <<>>]
    ELSE ValidateFrom(values.items, 1)

\* ------------------------------------------------- the find pattern (re)

(***************************************************************************)
(* _get_find_pattern splices the reference into the source of a regular    *)
(* expression without escaping it:                                         *)
(*     (?<![#\[/])(?P<__ARGREF_ORIGINAL_TEXT__> reference' )               *)
(* where reference' is the reference with every match <name> of            *)
(* VARIABLE_PATTERN replaced by (?P<name>[-\w]+).  Every other character   *)
(* of the reference is therefore read by re.compile as pattern syntax.     *)
(* The syntax modelled: "." (any character but a newline), "(" and ")"     *)
(* (a group), "|" (alternation); every other character of the references   *)
(* of this model is an ordinary character, which matches itself.           *)
(*                                                                         *)
(* Pattern items: [k, c, name]; k is "lb" (the look-behind), "open" (a     *)
(* group opens; name is its name, <<>> when it has none), "close", "bar",  *)
(* "any", "var" (the group of a variable with its [-\w]+) or "lit".        *)
(***************************************************************************)

Item(k, c, name) == [k |-> k, c |-> c, name |-> name]

\* how re.compile reads one character of the reference
LiteralItem(c) ==
    CASE c = "." -> Item("any", c, <<>>)
      [] c = "(" -> Item("open", c, <<>>)
      [] c = ")" -> Item("close", c, <<>>)
      [] c = "|" -> Item("bar", c, <<>>)
      [] OTHER   -> Item("lit", c, <<>>)

\* the items of the pattern source that _get_find_pattern builds
PatternItems(reference) ==
    LET toks == VariableTokens(reference, 1)
    IN  <<Item("lb", "", <<>>), Item("open", "", FULL_REF_TAG)>>
        \o [ i \in 1..Len(toks) |->
               IF toks[i].var
               THEN Item("var", "", TokenName(toks[i].s))
               ELSE LiteralItem(toks[i].s[1]) ]
        \o <<Item("close", "", <<>>)>>

(***************************************************************************)
(* The parse of re.compile.  A parsed pattern is a sequence of branches    *)
(* (the alternatives, in order), a branch a sequence of nodes, a node      *)
(* [k, c, name, alts] with alts the branches of a group.                   *)
(***************************************************************************)

Node(k, c, name, alts) == [k |-> k, c |-> c, name |-> name, alts |-> alts]
ParseFailed == [ok |-> FALSE, val |-> <<>>, next |-> 0]

RECURSIVE ParseAlts(_, _)
RECURSIVE ParseBranch(_, _)

\* the nodes of one branch from item i on, up to a "bar", a "close" or the end
ParseBranch(items, i) ==
    IF i > Len(items) \/ items[i].k \in {"bar", "close"}
    THEN [ok |-> TRUE, val |-> <<>>, next |-> i]
    ELSE LET it == items[i] IN
         IF it.k = "open"
         THEN LET body == ParseAlts(items, i + 1) IN
              IF ~body.ok \/ body.next > Len(items) \/ items[body.next].k # "close"
              THEN ParseFailed     \* missing ), unterminated subpattern
              ELSE LET rest == ParseBranch(items, body.next + 1) IN
                   IF ~rest.ok THEN ParseFailed
                   ELSE [ok |-> TRUE,
                         val |-> <<Node("group", "", it.name, body.val)>> \o rest.val,
                         next |-> rest.next]
         ELSE LET rest == ParseBranch(items, i + 1) IN
              IF ~rest.ok THEN ParseFailed
              ELSE [ok |-> TRUE,
                    val |-> <<Node(it.k, it.c, it.name, <<>>)>> \o rest.val,
                    next |-> rest.next]

\* the branches from item i on, up to a "close" or the end
ParseAlts(items, i) ==
    LET first == ParseBranch(items, i) IN
    IF ~first.ok THEN ParseFailed
    ELSE IF first.next <= Len(items) /\ items[first.next].k = "bar"
    THEN LET more == ParseAlts(items, first.next + 1) IN
         IF ~more.ok THEN ParseFailed
         ELSE [ok |-> TRUE, val |-> <<first.val>> \o more.val, next |-> more.next]
    ELSE [ok |-> TRUE, val |-> <<first.val>>, next |-> first.next]

\* the names of the named groups, in the order they open
GroupNames(items) ==
    LET at == { i \in 1..Len(items) :
                  items[i].k = "var" \/ (items[i].k = "open" /\ items[i].name # <<>>) }
    IN  [ n \in 1..Cardinality(at) |->
            items[CHOOSE i \in at : Cardinality({ j \in at : j <= i }) = n].name ]

\* re.compile of the pattern source: [ok |-> FALSE, ...] when it raises
\* re.error (a group never closed, a ")" that closes nothing, a group name
\* that is no identifier, a group name defined twice)
CompileItems(items) ==
    LET parsed == ParseAlts(items, 1)
        names == GroupNames(items)
    IN  IF /\ parsed.ok
           /\ parsed.next = Len(items) + 1
           /\ \A n \in 1..Len(names) : IsIdentifier(names[n])
           /\ \A n, m \in 1..Len(names) : names[n] = names[m] => n = m
        THEN [ok |-> TRUE, alts |-> parsed.val, names |-> Range(names)]
        ELSE [ok |-> FALSE, alts |-> <<>>, names |-> {}]

\* MarkdownAutoLinker._get_find_pattern(reference)
_get_find_pattern(reference) == CompileItems(PatternItems(reference))

(***************************************************************************)
(* Matching, as the backtracking matcher of re does it: a match attempt    *)
(* yields the ways to match in the order re tries them, each [pos |-> the  *)
(* index after the match, caps |-> the text of every named group, "" for   *)
(* a group that took no part].  re takes the first.                        *)
(***************************************************************************)

RECURSIVE MatchNode(_, _, _, _)
RECURSIVE MatchBranch(_, _, _, _, _)
RECURSIVE MatchRest(_, _, _, _)
RECURSIVE MatchAlts(_, _, _, _, _)

RECURSIVE VariableRun(_, _)
\* the length of the run of [-\w] that starts at pos
VariableRun(text, pos) ==
    IF pos <= Len(text) /\ IsVariableChar(text[pos])
    THEN 1 + VariableRun(text, pos + 1)
    ELSE 0

MatchNode(node, text, pos, caps) ==
    CASE node.k = "lit" ->
           IF pos <= Len(text) /\ Lower(text[pos]) = Lower(node.c)
           THEN <<[pos |-> pos + 1, caps |-> caps]>> ELSE <<>>
      [] node.k = "any" ->
           IF pos <= Len(text) /\ IsDotChar(text[pos])
           THEN <<[pos |-> pos + 1, caps |-> caps]>> ELSE <<>>
      [] node.k = "lb" ->
           IF pos > 1 /\ IsLookBehindChar(text[pos - 1])
           THEN <<>> ELSE <<[pos |-> pos, caps |-> caps]>>
      [] node.k = "var" ->
           \* greedy: the longest run first
           LET run == VariableRun(text, pos)
           IN  [ n \in 1..run |->
                   [pos |-> pos + run - n + 1,
                    caps |-> [caps EXCEPT ![node.name] = SubSeq(text, pos, pos + run - n)]] ]
      [] node.k = "group" ->
           LET inner == MatchAlts(node.alts, 1, text, pos, caps)
           IN  [ n \in 1..Len(inner) |->
                   [pos |-> inner[n].pos,
                    caps |-> IF node.name = <<>> THEN inner[n].caps
                             ELSE [inner[n].caps EXCEPT
                                     ![node.name] = SubSeq(text, pos, inner[n].pos - 1)]] ]

\* the nodes of a branch from node i on
MatchBranch(nodes, i, text, pos, caps) ==
    IF i > Len(nodes) THEN <<[pos |-> pos, caps |-> caps]>>
    ELSE MatchRest(MatchNode(nodes[i], text, pos, caps), nodes, i + 1, text)

\* every way in ways, continued by the nodes from node i on
MatchRest(ways, nodes, i, text) ==
    IF ways = <<>> THEN <<>>
    ELSE MatchBranch(nodes, i, text, Head(ways).pos, Head(ways).caps)
         \o MatchRest(Tail(ways), nodes, i, text)

\* the branches from branch b on, the earlier branch first
MatchAlts(alts, b, text, pos, caps) ==
    IF b > Len(alts) THEN <<>>
    ELSE MatchBranch(alts[b], 1, text, pos, caps)
         \o MatchAlts(alts, b + 1, text, pos, caps)

NoMatch == [found |-> FALSE, start |-> 0, end |-> 0, caps |-> <<>>]

\* the match of pattern that starts at index start: the first way to match;
\* with must_advance, the first way that is not empty
MatchAt(pattern, text, start, must_advance) ==
    LET ways == MatchAlts(pattern.alts, 1, text, start,
                          [ n \in pattern.names |-> <<>> ])
        good == { n \in 1..Len(ways) : ~must_advance \/ ways[n].pos > start }
    IN  IF good = {} THEN NoMatch
        ELSE [found |-> TRUE, start |-> start,
              end |-> ways[MinOf(good)].pos - 1, caps |-> ways[MinOf(good)].caps]

RECURSIVE Search(_, _, _, _)
\* the leftmost match that starts at index start or later
Search(pattern, text, start, must_advance) ==
    IF start > Len(text) + 1 THEN NoMatch
    ELSE LET m == MatchAt(pattern, text, start, must_advance) IN
         IF m.found THEN m ELSE Search(pattern, text, start + 1, FALSE)

\* --------------------------------------------- the replace pattern (re)

\* MarkdownAutoLinker._get_replace_pattern(target_url): the template
\* [<FULL_REF_TAG>](target_url) with every match <name> of VARIABLE_PATTERN
\* replaced by \g<name>
_get_replace_pattern(target_url) ==
    LET template == <<"[", "<">> \o FULL_REF_TAG \o <<">", "]", "(">> \o target_url \o <<")">>
        toks == VariableTokens(template, 1)
    IN  Join([ i \in 1..Len(toks) |->
                 IF toks[i].var THEN <<"\\", "g">> \o toks[i].s ELSE toks[i].s ])

RECURSIVE TemplateParts(_, _)
\* re's parse of a replacement template from index i on: the group
\* references \g<name> and the literal characters.  (Of the escapes of a
\* template only \g<name> is modelled: no target_url of this model holds a
\* backslash or names a group by its number.)
TemplateParts(repl, i) ==
    IF i > Len(repl) THEN <<>>
    ELSE IF repl[i] = "\\"
    THEN LET close == MinOf({ j \in (i + 3)..Len(repl) : repl[j] = ">" })
         IN  <<[ref |-> TRUE, s |-> SubSeq(repl, i + 3, close - 1)]>>
             \o TemplateParts(repl, close + 1)
    ELSE <<[ref |-> FALSE, s |-> <<repl[i]>>]>> \o TemplateParts(repl, i + 1)

\* whether re accepts the template for the pattern: every group it names
\* is a group of the pattern (else re raises IndexError or re.error)
TemplateOk(pattern, repl) ==
    LET parts == TemplateParts(repl, 1)
    IN  \A i \in 1..Len(parts) :
            parts[i].ref => (IsIdentifier(parts[i].s) /\ parts[i].s \in pattern.names)

\* match.expand(repl): a group that took no part in the match expands to ""
Expand(repl, m) ==
    LET parts == TemplateParts(repl, 1)
    IN  Join([ i \in 1..Len(parts) |->
                 IF parts[i].ref THEN m.caps[parts[i].s] ELSE parts[i].s ])

RECURSIVE FindIter(_, _, _, _)
\* the matches that the loop of pattern.sub finds, the search starting at
\* index start: after an empty match the next one must advance
FindIter(pattern, text, start, must_advance) ==
    LET m == Search(pattern, text, start, must_advance) IN
    IF ~m.found THEN <<>>
    ELSE <<m>> \o FindIter(pattern, text, m.end + 1, m.end < m.start)

RECURSIVE SubText(_, _, _, _, _)
\* what the loop of pattern.sub builds from match n on: the text between
\* the matches (from index copied on) and the expansion of every match
SubText(repl, text, matches, n, copied) ==
    IF n > Len(matches) THEN SubSeq(text, copied, Len(text))
    ELSE SubSeq(text, copied, matches[n].start - 1)
         \o Expand(repl, matches[n])
         \o SubText(repl, text, matches, n + 1, matches[n].end + 1)

Raised == [error |-> TRUE, text |-> <<>>]
Returned(text) == [error |-> FALSE, text |-> text]

\* re.sub(pattern, repl, text); the template is parsed before the search
Sub(pattern, repl, text) ==
    IF ~TemplateOk(pattern, repl) THEN Raised
    ELSE Returned(SubText(repl, text, FindIter(pattern, text, 1, FALSE), 1, 1))

\* ---------------------------------- LINK_PATTERN  \[.+?\]\(.*?\)

\* Index of the ")" that ends the match of LINK_PATTERN starting at i, 0
\* when there is none: "[", the shortest non-empty run of "." that is
\* followed by "](" , the shortest run of "." that is followed by ")".
LinkMatchEnd(s, i) ==
    IF i > Len(s) \/ s[i] # "[" THEN 0
    ELSE LET EndsAfter(j) == { k \in (j + 2)..Len(s) :
                                 /\ s[k] = ")"
                                 /\ \A x \in (j + 2)..(k - 1) : IsDotChar(s[x]) }
             mids == { j \in (i + 2)..(Len(s) - 1) :
                         /\ s[j] = "]"
                         /\ s[j + 1] = "("
                         /\ \A x \in (i + 1)..(j - 1) : IsDotChar(s[x])
                         /\ EndsAfter(j) # {} }
         IN  IF mids = {} THEN 0 ELSE MinOf(EndsAfter(MinOf(mids)))

RECURSIVE LinkSpans(_, _)
\* the non-overlapping matches <<start, end>> of LINK_PATTERN from index i on
LinkSpans(s, i) ==
    IF i > Len(s) THEN <<>>
    ELSE LET e == LinkMatchEnd(s, i) IN
         IF e = 0 THEN LinkSpans(s, i + 1)
         ELSE <<<<i, e>>>> \o LinkSpans(s, e + 1)

\* re.findall(LINK_PATTERN, s)
FindAllLinks(s) ==
    LET spans == LinkSpans(s, 1)
    IN  [ n \in 1..Len(spans) |-> SubSeq(s, spans[n][1], spans[n][2]) ]

\* re.split(LINK_PATTERN, s): one piece more than there are links
SplitLinks(s) ==
    LET spans == LinkSpans(s, 1)
    IN  [ n \in 1..(Len(spans) + 1) |->
            SubSeq(s,
                   IF n = 1 THEN 1 ELSE spans[n - 1][2] + 1,
                   IF n > Len(spans) THEN Len(s) ELSE spans[n][1] - 1) ]

\* ----------------------------------------------- MarkdownAutoLinker

\* MarkdownAutoLinker(reference, target_url): __init__ raises when
\* re.compile does
MarkdownAutoLinker(reference, target_url) ==
    [find_pattern |-> _get_find_pattern(reference),
     replace_pattern |-> _get_replace_pattern(target_url)]

\* has_reference(markdown)
has_reference(self, markdown) ==
    Search(self.find_pattern, markdown, 1, FALSE).found

RECURSIVE JoinPieces(_, _, _, _)
\* the loop over zip(pieces, urls) and the join of buf
JoinPieces(self, pieces, urls, n) ==
    IF n > Len(pieces) THEN Returned(<<>>)
    ELSE LET piece == Sub(self.find_pattern, self.replace_pattern, pieces[n])
             rest == JoinPieces(self, pieces, urls, n + 1)
         IN  IF piece.error \/ rest.error THEN Raised
             ELSE Returned(piece.text \o urls[n] \o rest.text)

\* replace_all_references(markdown, skip_links)
replace_all_references(self, markdown, skip_links) ==
    IF skip_links
    THEN JoinPieces(self, SplitLinks(markdown), FindAllLinks(markdown) \o <<<<>>>>, 1)
    ELSE Sub(self.find_pattern, self.replace_pattern, markdown)

RECURSIVE ReplaceFrom(_, _, _, _)
\* the loop of replace_autolink_references from autolink n on
ReplaceFrom(result, autolinks, skip_links, n) ==
    IF n > Len(autolinks) THEN Returned(result)
    ELSE LET autolinker == MarkdownAutoLinker(autolinks[n][1], autolinks[n][2]) IN
         IF ~autolinker.find_pattern.ok THEN Raised
         ELSE IF has_reference(autolinker, result)
         THEN LET replaced == replace_all_references(autolinker, result, skip_links)
              IN  IF replaced.error THEN Raised
                  ELSE ReplaceFrom(replaced.text, autolinks, skip_links, n + 1)
         ELSE ReplaceFrom(result, autolinks, skip_links, n + 1)

\* replace_autolink_references(markdown, autolinks, skip_links)
replace_autolink_references(markdown, autolinks, skip_links) ==
    ReplaceFrom(markdown, autolinks, skip_links, 1)

\* ------------------------------------------------- AutolinkReference

\* the plugin instances of the process; they share the class attribute
\* autolinks
Plugins == {"first", "second"}

VARIABLES
    config,      \* per plugin: the outcome of loading its configuration
    autolinks,   \* AutolinkReference.autolinks, the class attribute
    markdown,    \* the markdown of the last on_page_markdown call
    definitions, \* the autolinks that call passed on
    skip_links,  \* the skip_links that call passed on
    result,      \* what the call returned, or that it raised
    page,        \* "none", "first" (a page), "again" (its own output)
    source,      \* the page as it was written
    supplied,    \* per plugin: the value given to run_validation
    calls        \* the config["autolinks"] of every on_pre_build call so far

vars == <<config, autolinks, markdown, definitions, skip_links, result, page, source, supplied, calls>>

NotLoaded == [state |-> "unset", autolinks |-> <<>>, filter_links |-> FALSE, error |-> ""]
NoValue == [list |-> FALSE, items |-> <<>>]

Init ==
    /\ config = [p \in Plugins |-> NotLoaded]
    /\ autolinks = <<>>
    /\ markdown = <<>>
    /\ definitions = <<>>
    /\ skip_links = FALSE
    /\ result = Returned(<<>>)
    /\ page = "none"
    /\ source = <<>>
    /\ supplied = [p \in Plugins |-> NoValue]
    /\ calls = <<>>

\* The host loads the configuration of plugin p: the option "autolinks" is
\* validated by AutoLinkOption.run_validation, and a ValidationError aborts
\* the build before any hook of the plugin runs.
LoadConfig(p, values, filter_links) ==
    /\ config[p].state = "unset"
    /\ LET v == run_validation(values) IN
       config' = [config EXCEPT ![p] =
                    IF v.error = ""
                    THEN [state |-> "valid", autolinks |-> v.values,
                          filter_links |-> filter_links, error |-> ""]
                    ELSE [state |-> "invalid", autolinks |-> <<>>,
                          filter_links |-> filter_links, error |-> v.error]]
    /\ supplied' = [supplied EXCEPT ![p] = values]
    /\ UNCHANGED <<autolinks, markdown, definitions, skip_links, result, page, source, calls>>

\* the (reference_prefix, target_url) tuples of a validated list
Pairs(items) ==
    [ i \in 1..Len(items) |-> <<items[i].reference_prefix, items[i].target_url>> ]

\* an on_pre_build that assigns the class attribute (variant)
on_pre_build_reset(registry, items) == Pairs(items)
\* what on_pre_build leaves in the class attribute: it appends
on_pre_build(registry, items) == registry \o Pairs(items)

\* the bound on the on_pre_build calls of a run
MaxBuilds == 2

\* AutolinkReference.on_pre_build of plugin p
OnPreBuild(p) ==
    /\ config[p].state = "valid"
    /\ Len(calls) < MaxBuilds
    /\ autolinks' = on_pre_build(autolinks, config[p].autolinks)
    /\ calls' = Append(calls, config[p].autolinks)
    /\ UNCHANGED <<config, markdown, definitions, skip_links, result, page, source, supplied>>

\* AutolinkReference.on_page_markdown of plugin p on one of the pages
OnPageMarkdown(p, pages) ==
    /\ config[p].state = "valid"
    /\ page = "none"
    /\ \E md \in pages :
        /\ markdown' = md
        /\ definitions' = autolinks
        /\ skip_links' = config[p].filter_links
        /\ result' = replace_autolink_references(md, autolinks, config[p].filter_links)
        /\ source' = md
    /\ page' = "first"
    /\ UNCHANGED <<config, autolinks, supplied, calls>>

\* on_page_markdown of plugin p on the output of the call before
OnPageAgain(p) ==
    /\ config[p].state = "valid"
    /\ page = "first"
    /\ ~result.error
    /\ skip_links = config[p].filter_links
    /\ definitions = autolinks
    /\ markdown' = result.text
    /\ result' = replace_autolink_references(result.text, autolinks, config[p].filter_links)
    /\ page' = "again"
    /\ UNCHANGED <<config, autolinks, definitions, skip_links, source, supplied, calls>>

\* ------------------------------------------------------------ inputs

Entry(reference_prefix, target_url) ==
    [reference_prefix |-> reference_prefix, target_url |-> target_url]
List(items) == [list |-> TRUE, items |-> items]

RECURSIVE Concatenations(_, _)
\* the texts made of at most n of the fragments
Concatenations(fragments, n) ==
    IF n = 0 THEN {<<>>}
    ELSE LET shorter == Concatenations(fragments, n - 1)
         IN  shorter \cup { t \o f : t \in shorter, f \in fragments }

\* the bound on the fragments of a generated page
MaxFragments == 3

\* the definition of the examples: GH-123 links to https://x/issues/123
GH == Entry(<<"G", "H", "-", "<", "n", "u", "m", ">">>, <<"h", "t", "t", "p", "s", ":", "/", "/", "x", "/", "i", "s", "s", "u", "e", "s", "/", "<", "n", "u", "m", ">">>)
TASK == Entry(<<"T", "A", "S", "K", "-", "<", "p", "r", "o", "j", ">", "-", "<", "n", "u", "m", ">">>, <<"h", "t", "t", "p", "s", ":", "/", "/", "x", "/", "<", "p", "r", "o", "j", ">", "/", "<", "n", "u", "m", ">">>)

\* the pages of the examples
Documents ==
    { <<"S", "e", "e", " ", "G", "H", "-", "1", "2", "3", " ", "f", "o", "r", " ", "d", "e", "t", "a", "i", "l", "s">>,
      <<"s", "e", "e", " ", "g", "h", "-", "1", "2", "3">>,
      <<"[", "G", "H", "-", "1", "2", "3", "]", "(", "h", "t", "t", "p", ":", "/", "/", "o", "t", "h", "e", "r", ")", " ", "a", "n", "d", " ", "G", "H", "-", "4", "5", "6">>,
      <<"T", "A", "S", "K", "-", "a", "b", "c", "-", "7">> }

\* ---- configuration values, valid and not

ConfigValues ==
    { [list |-> FALSE, items |-> <<>>],
      List(<<>>),
      List(<<GH>>),
      List(<<TASK>>),
      List(<<Entry(<<"G", "H", "-">>, <<"h", "t", "t", "p", "s", ":", "/", "/", "x", "/", "<", "n", "u", "m", ">">>)>>),
      List(<<Entry(<<"G", "H", "-">>, <<"h", "t", "t", "p", "s", ":", "/", "/", "x", "/", "f", "i", "x", "e", "d">>)>>),
      List(<<Entry(<<"R", "E", "F", "-", "<", "i", "d", ">">>, <<"h", "t", "t", "p", "s", ":", "/", "/", "x", "/", "f", "i", "x", "e", "d">>)>>),
      List(<<Entry(<<"T", "A", "S", "K", "-", "<", "p", "r", "o", "j", ">", "-", "<", "n", "u", "m", ">">>, <<"h", "t", "t", "p", "s", ":", "/", "/", "x", "/", "<", "p", "r", "o", "j", ">">>)>>),
      List(<<[reference_prefix |-> <<"G", "H", "-", "<", "n", "u", "m", ">">>]>>),
      List(<<[target_url |-> <<"h", "t", "t", "p", "s", ":", "/", "/", "x", "/", "i", "s", "s", "u", "e", "s", "/", "<", "n", "u", "m", ">">>]>>),
      List(<<GH, Entry(<<"R", "E", "F", "-", "<", "i", "d", ">">>, <<"h", "t", "t", "p", "s", ":", "/", "/", "x", "/", "f", "i", "x", "e", "d">>)>>),
      List(<<Entry(<<"G", "H", "-">>, <<"h", "t", "t", "p", "s", ":", "/", "/", "x", "/", "<", "n", "u", "m", ">">>), TASK>>) }

ConfigTexts == { <<"S", "e", "e", " ", "G", "H", "-", "1", "2", "3", " ", "f", "o", "r", " ", "d", "e", "t", "a", "i", "l", "s">>, <<"T", "A", "S", "K", "-", "a", "b", "c", "-", "7", " ", "g", "h", "-", "1">> }

NextConfig ==
    \/ \E p \in Plugins, v \in ConfigValues, f \in BOOLEAN : LoadConfig(p, v, f)
    \/ \E p \in Plugins : OnPreBuild(p)
    \/ \E p \in Plugins : OnPageMarkdown(p, ConfigTexts)
    \/ \E p \in Plugins : OnPageAgain(p)

\* configuration: what is loaded, validated and registered
SpecConfig == Init /\ [][NextConfig]_vars

\* ---- rewriting with the definition of the examples

ExampleFragments ==
    { <<"G", "H", "-">>, <<"g", "h", "-">>, <<"1">>, <<"a">>, <<" ">>, <<"#">>, <<"[">>, <<"/">>, <<"]", "(", "u", ")">> }
ExampleTexts == Documents \cup Concatenations(ExampleFragments, MaxFragments)

NextExample ==
    \/ \E f \in BOOLEAN : LoadConfig("first", List(<<GH>>), f)
    \/ OnPreBuild("first")
    \/ OnPageMarkdown("first", ExampleTexts)
    \/ OnPageAgain("first")

SpecExample == Init /\ [][NextExample]_vars

\* ---- rewriting with every kind of definition that validation accepts

Values ==
    { List(<<>>),
      List(<<GH>>),
      List(<<TASK>>),
      \* a target_url that holds a ")" and a "[", and a second definition
      List(<<Entry(<<"G", "H", "-">>, <<"a", ")", "[", "<", "n", "u", "m", ">">>), Entry(<<"K", "<", "n", ">">>, <<"v", "<", "n", ">">>)>>),
      \* regex syntax in the reference
      List(<<Entry(<<"G", "H", ".">>, <<"u", "<", "n", "u", "m", ">">>)>>),
      List(<<Entry(<<"G", "H", "-", "|", "K">>, <<"u", "<", "n", "u", "m", ">">>)>>),
      List(<<Entry(<<"G", "H", "-", ")", "|", "(", "K">>, <<"u", "<", "n", "u", "m", ">">>)>>),
      List(<<Entry(<<"(", "G", "H", "-", "<", "n", ">">>, <<"u", "<", "n", ">">>)>>),
      \* a variable named twice, a variable whose name is no identifier
      List(<<Entry(<<"<", "n", ">", "-", "<", "n", ">">>, <<"u", "<", "n", ">">>)>>),
      List(<<Entry(<<"K", "<", "1", ">">>, <<"u", "<", "1", ">">>)>>),
      \* a token of the target_url that names no variable
      List(<<Entry(<<"K", "<", "n", ">">>, <<"u", "<", "n", ">", "<", "x", ">">>)>>) }

Fragments == { <<"G", "H", "-">>, <<"1">>, <<"K", "1">>, <<"#">>, <<" ">> }
Texts ==
    Documents
    \cup Concatenations(Fragments, MaxFragments)
    \* an unbalanced "](" before a link whose text holds a ")"
    \cup { <<"G", "H", "-", "1", "]", "(", "[", ")", "K", "1", "]", "(", "z", ")">> }

Next ==
    \/ \E v \in Values, f \in BOOLEAN : LoadConfig("first", v, f)
    \/ OnPreBuild("first")
    \/ OnPageMarkdown("first", Texts)

Spec == Init /\ [][Next]_vars

\* ------------------------------------------------------------ properties

\* the find pattern of definition n of the last call
Matcher(n) == _get_find_pattern(definitions[n][1])
\* the matches that one pass of definition n replaces in the whole text
Replaced(n, text) == FindIter(Matcher(n), text, 1, FALSE)
\* a fresh page was rewritten with one definition, links not protected
OnePlainPass == page = "first" /\ Len(definitions) = 1 /\ ~skip_links
\* the variables "<name>" of a reference, the tokens of a target_url
TokensOf(s) == Range(FindAllVariables(s))

\* ---- C1

\* the link that a match is to be replaced by: [m](u), m the matched text
\* and u the target_url with every token replaced by the value captured
LinkOf(text, m, target_url) ==
    LET toks == VariableTokens(target_url, 1)
    IN  <<"[">> \o SubSeq(text, m.start, m.end) \o <<"]", "(">>
        \o Join([ i \in 1..Len(toks) |->
                    IF toks[i].var THEN m.caps[TokenName(toks[i].s)] ELSE toks[i].s ])
        \o <<")">>

RECURSIVE Linked(_, _, _, _, _)
\* text with every match from match n on replaced by its link
Linked(text, matches, n, copied, target_url) ==
    IF n > Len(matches) THEN SubSeq(text, copied, Len(text))
    ELSE SubSeq(text, copied, matches[n].start - 1)
         \o LinkOf(text, matches[n], target_url)
         \o Linked(text, matches, n + 1, matches[n].end + 1, target_url)

\* C1: for every definition whose matcher exists and whose target_url names
\* only variables of the reference, and every text, every occurrence the
\* matcher accepts binds each variable to one or more [-\w] characters and
\* is replaced by [m](u): m the matched text as written, u the target_url
\* with every <name> replaced by the value captured for it.
C1_EveryMatchLinked ==
    (OnePlainPass /\ Matcher(1).ok
       /\ TokensOf(definitions[1][2]) \subseteq TokensOf(definitions[1][1]))
    => /\ ~result.error
       /\ \A n \in 1..Len(Replaced(1, markdown)) :
             \A v \in TokensOf(definitions[1][1]) :
                 Replaced(1, markdown)[n].caps[TokenName(v)] # <<>>
       /\ result.text = Linked(markdown, Replaced(1, markdown), 1, 1, definitions[1][2])

\* ---- C2

RECURSIVE OccurInOrder(_, _, _, _)
\* the links from link n on occur in text from index start on, one after
\* the other
OccurInOrder(links, n, text, start) ==
    \/ n > Len(links)
    \/ \E j \in start..(Len(text) - Len(links[n]) + 1) :
          /\ SubSeq(text, j, j + Len(links[n]) - 1) = links[n]
          /\ OccurInOrder(links, n + 1, text, j + Len(links[n]))

\* C2: with filter_links = true every markdown link [text](url) of the page
\* is found unchanged in the output of rewrite, in the original order.
C2_LinksKept ==
    (page = "first" /\ skip_links /\ ~result.error)
    => OccurInOrder(FindAllLinks(markdown), 1, result.text, 1)

\* ---- C3

\* a place of the text where the literal part "GH-" of the reference of the
\* examples starts, whatever the case
RefAt(text, i) ==
    /\ i + 2 <= Len(text)
    /\ Lower(text[i]) = "g" /\ Lower(text[i + 1]) = "h" /\ text[i + 2] = "-"

\* a reference inside the <num> part of another one, as in GH-GH-1
NestedReference(text) ==
    \E i, j \in 1..Len(text) :
        /\ i + 3 <= j
        /\ RefAt(text, i) /\ RefAt(text, j)
        /\ j + 3 <= Len(text) /\ IsVariableChar(text[j + 3])
        /\ \A x \in (i + 3)..(j - 1) : IsVariableChar(text[x])

\* C3: with the definition GH-<num> -> https://x/issues/<num>, rewrite of
\* the output of rewrite returns that output, the "[" before a wrapped
\* reference keeping a further pass from linking it: for every page of
\* plain references (none inside the <num> part of another one, as the
\* second GH- of GH-GH-1 is, which a pass without link protection finds
\* after the "-" of the link text), and with filter_links = true for
\* every page.
C3_Idempotent ==
    (page = "again" /\ (skip_links \/ ~NestedReference(source)))
    => (~result.error /\ result.text = markdown)

\* a plain reference was wrapped by the first pass and left by the second
C3_Witness ==
    /\ page = "again" /\ ~skip_links
    /\ source = <<"S", "e", "e", " ", "G", "H", "-", "1", "2", "3", " ", "f", "o", "r", " ", "d", "e", "t", "a", "i", "l", "s">>
    /\ markdown = <<"S", "e", "e", " ", "[", "G", "H", "-", "1", "2", "3", "]", "(", "h", "t", "t", "p", "s", ":", "/", "/", "x", "/", "i", "s", "s", "u", "e", "s", "/", "1", "2", "3", ")", " ", "f", "o", "r", " ", "d", "e", "t", "a", "i", "l", "s">>
    /\ result = Returned(markdown)

\* ---- C4

\* C4: every span that rewrite replaces starts at the start of the text or
\* after a character that is none of "#", "[" and "/".
C4_NeverAfterHashBracketSlash ==
    (OnePlainPass /\ Matcher(1).ok /\ ~result.error)
    => \A n \in 1..Len(Replaced(1, markdown)) :
          LET s == Replaced(1, markdown)[n].start
          IN  s = 1 \/ ~IsLookBehindChar(markdown[s - 1])

\* ---- C5

HasKeys(autolink) ==
    "reference_prefix" \in DOMAIN autolink /\ "target_url" \in DOMAIN autolink

\* a value that run_validation is to reject
Malformed(values) ==
    \/ ~values.list
    \/ \E i \in 1..Len(values.items) :
          \/ ~HasKeys(values.items[i])
          \/ \E v \in TokensOf(values.items[i].reference_prefix) :
                ~Contains(values.items[i].target_url, v)

\* C5: run_validation raises for every value that is no list, that holds
\* an entry without reference_prefix or target_url, or in which a variable
\* of an entry's reference_prefix is missing from its target_url; the list
\* it returns holds every entry supplied, in order.
C5_Validation ==
    \A p \in Plugins :
        config[p].state # "unset"
        => /\ Malformed(supplied[p]) => config[p].state = "invalid"
           /\ config[p].state = "invalid" => config[p].error # ""
           /\ config[p].state = "valid"
              => /\ Len(config[p].autolinks) = Len(supplied[p].items)
                 /\ \A i \in 1..Len(supplied[p].items) :
                       /\ config[p].autolinks[i].target_url
                            = supplied[p].items[i].target_url
                       /\ config[p].autolinks[i].reference_prefix
                            \in { supplied[p].items[i].reference_prefix,
                                  supplied[p].items[i].reference_prefix \o NUM }

\* REF-<id> with https://x/fixed was rejected, and a list of two entries
\* was returned whole
C5_Witness ==
    /\ supplied["first"] = List(<<Entry(<<"R", "E", "F", "-", "<", "i", "d", ">">>, <<"h", "t", "t", "p", "s", ":", "/", "/", "x", "/", "f", "i", "x", "e", "d">>)>>)
    /\ config["first"].state = "invalid"
    /\ config["first"].error = ERR_VARIABLES
    /\ config["second"].state = "valid"
    /\ Len(config["second"].autolinks) = 2

\* ---- C6

\* C6: validation appends <num> to a reference_prefix that holds no variable
\* and accepts the entry only if its target_url holds <num>; it leaves a
\* reference_prefix that holds a variable as it is.
C6_DefaultPlaceholder ==
    \A p \in Plugins :
        config[p].state = "valid"
        => \A i \in 1..Len(supplied[p].items) :
              LET given == supplied[p].items[i]
                  kept == config[p].autolinks[i]
              IN  IF TokensOf(given.reference_prefix) = {}
                  THEN /\ kept.reference_prefix = given.reference_prefix \o NUM
                       /\ Contains(given.target_url, NUM)
                       /\ kept.target_url = given.target_url
                  ELSE kept = given

\* GH- with https://x/<num> became GH-<num>
C6_Witness ==
    \E p \in Plugins :
        /\ config[p].state = "valid"
        /\ supplied[p] = List(<<Entry(<<"G", "H", "-">>, <<"h", "t", "t", "p", "s", ":", "/", "/", "x", "/", "<", "n", "u", "m", ">">>)>>)
        /\ config[p].autolinks = <<Entry(<<"G", "H", "-", "<", "n", "u", "m", ">">>, <<"h", "t", "t", "p", "s", ":", "/", "/", "x", "/", "<", "n", "u", "m", ">">>)>>

\* ---- C7

\* C7: for a configuration that passed run_validation, rewrite returns a
\* string and raises nothing.
C7_RewriteNeverRaises == page # "none" => ~result.error

\* ---- C8

\* the matcher of a definition accepts an occurrence in the text
Accepts(definition, text) ==
    LET pattern == _get_find_pattern(definition[1])
    IN  pattern.ok /\ Search(pattern, text, 1, FALSE).found

\* C8: rewrite returns the text it is given when the matcher of no
\* definition accepts an occurrence in it, whatever filter_links is.
C8_NoReferenceNoChange ==
    (page # "none"
       /\ \A n \in 1..Len(definitions) : ~Accepts(definitions[n], markdown))
    => (~result.error /\ result.text = markdown)

\* ---- C9

\* C9: the registry is the concatenation, in call order, of the pairs of
\* every on_pre_build call so far, whatever was built twice and whatever
\* pages were rewritten in between.
C9_RegistryAppendOnly ==
    autolinks = Join([ n \in 1..Len(calls) |-> Pairs(calls[n]) ])

\* the same configuration was built twice, its pairs are there twice, and
\* pages have been rewritten
C9_Witness ==
    /\ Len(calls) = 2
    /\ calls[1] = calls[2]
    /\ Len(calls[1]) = 2
    /\ Len(autolinks) = 4
    /\ page = "again"

\* ---- C10

RECURSIVE ReadLiterally(_, _, _, _)
\* span from index pos on is the reference from token i on, every character
\* outside the variables matched as itself (up to case) and every variable
\* matched by one or more [-\w]
ReadLiterally(toks, i, span, pos) ==
    IF i > Len(toks) THEN pos = Len(span) + 1
    ELSE IF toks[i].var
    THEN \E k \in 1..(Len(span) - pos + 1) :
            /\ \A x \in pos..(pos + k - 1) : IsVariableChar(span[x])
            /\ ReadLiterally(toks, i + 1, span, pos + k)
    ELSE /\ pos <= Len(span)
         /\ Lower(span[pos]) = Lower(toks[i].s[1])
         /\ ReadLiterally(toks, i + 1, span, pos + 1)

\* C10: the matcher accepts a span only if the span is the reference read
\* literally: the characters outside the variables equal those of the
\* reference, up to case.
C10_LiteralsMatchLiterally ==
    (OnePlainPass /\ Matcher(1).ok)
    => \A n \in 1..Len(Replaced(1, markdown)) :
          ReadLiterally(VariableTokens(definitions[1][1], 1), 1,
                        SubSeq(markdown, Replaced(1, markdown)[n].start,
                               Replaced(1, markdown)[n].end), 1)

====
